---- MODULE Spec2Model ----
(***************************************************************************)
(* Keyboard Warrior multiplayer server (the server program listed in       *)
(* src/SETUP.md): rooms, matchmaking queue, connection registry, game      *)
(* clock, forfeit handling and stats aggregation, as a state machine.      *)
(*                                                                         *)
(* JavaScript objects are references.  Player objects live in `heap` and   *)
(* are named by their index; playerSockets and room.players hold indices,  *)
(* so that a write through one reference (rejoinRoom's                     *)
(* existingPlayer.socketId = socket.id, createRoom's player.roomCode =     *)
(* roomCode) is seen through every other reference to the same object.     *)
(* Room objects live in `rooms`, named by creation index; activeRooms maps *)
(* a room code to the room registered under it, and timer closures keep    *)
(* the room (startTimeouts, the interval) or the code (cleanupTimeouts)    *)
(* they captured.                                                          *)
(*                                                                         *)
(* Node runs one handler or timer callback to completion before the next:  *)
(* every action below is one whole handler.                                *)
(***************************************************************************)
EXTENDS Integers, Sequences, FiniteSets, TLC

\* ---------------------------------------------------------------- bounds
MaxRooms == 2        \* GameRoom objects constructed over a run
Events1 == 4         \* client events over a run with one connection
Events2 == 4         \* client events over a run with two connections
Events3 == 3         \* client events over a run with three connections
MaxScore == 1        \* largest score value a client sends
TickWindow == 1      \* the last ticks of a game clock are taken one by one
EventsPrivate == 6   \* client events over a private-room run (SpecPrivate)
EventsDuel == 5      \* client events over a two-connection game (SpecDuel)
EventsHandshake == 4 \* client events of a rejoin handshake (SpecHandshake)

\* ------------------------------------------------------ program constants
GAME_DURATION == 60          \* seconds per game
MAX_PLAYERS == 2             \* GameRoom.maxPlayers
READY_TO_START == 2          \* readyPlayers.size >= 2
MATCHMAKING_TIMEOUT == 5     \* 5 * 60 * 1000 ms, in minutes

Sockets == 1..4                      \* connection ids, in order of connection
Names == {"A", "B"}                  \* usernames clients send
Codes == {"C1", "C2"}                \* room codes generateRoomCode may draw
Scores == 0..MaxScore
OPPONENT == "Opponent"               \* handlePlayerLeave's default leaver name
NoRef == 0                           \* undefined / no object
NoRoom == 0                          \* activeRooms.get(code) === undefined
NoCode == "-"                        \* roomCode null or undefined
NoName == "-"                        \* winner null

VARIABLES
    sockets,          \* socket id -> "new" | "live" | "closed" (io.sockets.sockets, socket.connected)
    playerSockets,    \* socket id -> player object (heap index) or NoRef
    heap,             \* player objects: [socketId, username, roomCode]
    activeRooms,      \* room code -> room (index into rooms) or NoRoom
    rooms,            \* GameRoom objects by creation index
    matchmakingQueue, \* sequence of [socketId, username, waited]
    joined,           \* socket id -> set of socket.io rooms (codes) the socket is in
    startTimeouts,    \* rooms captured by a pending 4000 ms start callback
    cleanupTimeouts,  \* room code -> number of pending delete callbacks
    users,            \* the users database: username -> stats
    matches,          \* the match log
    out,              \* messages emitted by the last handler, in order
    last,             \* the handler or callback that ran last, with its arguments
    nev               \* client events (messages and transport closes) still to come

vars == <<sockets, playerSockets, heap, activeRooms, rooms, matchmakingQueue,
          joined, startTimeouts, cleanupTimeouts, users, matches, out, last, nev>>

\* The whole program state as one record, so that handlers compose as functions.
World ==
    [sockets |-> sockets, playerSockets |-> playerSockets, heap |-> heap,
     activeRooms |-> activeRooms, rooms |-> rooms,
     matchmakingQueue |-> matchmakingQueue, joined |-> joined,
     startTimeouts |-> startTimeouts, cleanupTimeouts |-> cleanupTimeouts,
     users |-> users, matches |-> matches, out |-> <<>>]

\* ------------------------------------------------------------- utilities
\* F applied to the value v, evaluated once
With(v, F(_)) == CHOOSE x \in {F(y) : y \in {v}} : TRUE

RECURSIVE Concat(_)
Concat(ss) == IF ss = <<>> THEN <<>> ELSE Head(ss) \o Concat(Tail(ss))

RECURSIVE Filter(_, _)
\* seq without the positions in drop
Filter(seq, drop) ==
    IF seq = <<>> THEN <<>>
    ELSE LET n == Len(seq)
             rest == Filter(SubSeq(seq, 1, n - 1), drop)
         IN IF n \in drop THEN rest ELSE Append(rest, seq[n])

EmptyMap == [k \in {} |-> 0]
MapSet(f, k, v) == [x \in (DOMAIN f) \cup {k} |-> IF x = k THEN v ELSE f[x]]
MapGet0(f, k) == IF k \in DOMAIN f THEN f[k] ELSE 0      \* f[k] || 0

Connected(w, s) == s \in Sockets /\ w.sockets[s] = "live"

\* io.to(code): the live sockets that joined the socket.io room `code`
RoomSockets(w, code) == {s \in Sockets : w.sockets[s] = "live" /\ code \in w.joined[s]}

Emit(w, to, ev, arg) ==
    [w EXCEPT !.out = Append(@, [to |-> to, ev |-> ev, arg |-> arg])]

\* ------------------------------------------------------------ the heaps
NewObj(s, u, c) == [socketId |-> s, username |-> u, roomCode |-> c]

\* allocate: the new object's reference is Len(w.heap) + 1
Alloc(w, obj) == [w EXCEPT !.heap = Append(@, obj)]
NextRef(w) == Len(w.heap) + 1

\* A room object is reachable from the registry, from a pending start
\* callback (which captured `room`), or from its own running interval.
RoomAlive(w, r) ==
    \/ \E c \in Codes : w.activeRooms[c] = r
    \/ r \in w.startTimeouts
    \/ w.rooms[r].timerInterval

DeadRoom ==
    [roomCode |-> NoCode, host |-> NoRef, players |-> <<>>, status |-> "gone",
     gameStartTime |-> 0, scores |-> EmptyMap, timerInterval |-> FALSE,
     timeRemaining |-> 0, readyPlayers |-> {}]

\* Garbage collection: unreachable room objects are collected, unreachable
\* player objects are dropped and the rest renumbered in order of first
\* reference, so that equal object graphs are equal states.
RECURSIVE Dedup(_, _)
\* seq without repetitions, appended to acc
Dedup(acc, seq) ==
    IF seq = <<>> THEN acc
    ELSE IF \E i \in DOMAIN acc : acc[i] = Head(seq)
         THEN Dedup(acc, Tail(seq))
         ELSE Dedup(Append(acc, Head(seq)), Tail(seq))

RefOrder(ps, rms) ==
    Dedup(<<>>,
          Concat([s \in Sockets |-> IF ps[s] = NoRef THEN <<>> ELSE <<ps[s]>>])
          \o Concat([r \in 1..Len(rms) |->
                        IF rms[r].host = NoRef THEN rms[r].players
                        ELSE <<rms[r].host>> \o rms[r].players]))

Renumbering(order) ==
    [o \in {order[i] : i \in DOMAIN order} |-> CHOOSE i \in DOMAIN order : order[i] = o]

Collect(w) ==
    With([r \in 1..Len(w.rooms) |-> IF RoomAlive(w, r) THEN w.rooms[r] ELSE DeadRoom],
    LAMBDA rms :
    With(RefOrder(w.playerSockets, rms), LAMBDA order :
    With(Renumbering(order), LAMBDA newId :
        [w EXCEPT
          !.heap = [i \in 1..Len(order) |-> w.heap[order[i]]],
          !.playerSockets = [s \in Sockets |->
                                IF w.playerSockets[s] = NoRef THEN NoRef
                                ELSE newId[w.playerSockets[s]]],
          !.rooms = [r \in 1..Len(rms) |->
                       [rms[r] EXCEPT
                          !.host = IF @ = NoRef THEN NoRef ELSE newId[@],
                          !.players = [i \in 1..Len(@) |-> newId[@[i]]]]]])))

\* the next state is the collected world w
Assign(c) ==
    /\ sockets' = c.sockets
    /\ playerSockets' = c.playerSockets
    /\ heap' = c.heap
    /\ activeRooms' = c.activeRooms
    /\ rooms' = c.rooms
    /\ matchmakingQueue' = c.matchmakingQueue
    /\ joined' = c.joined
    /\ startTimeouts' = c.startTimeouts
    /\ cleanupTimeouts' = c.cleanupTimeouts
    /\ users' = c.users
    /\ matches' = c.matches
    /\ out' = c.out

Becomes(w) == \E v \in {w} : \E c \in {Collect(v)} : Assign(c)

\* ------------------------------------------------------------- GameRoom
\* new GameRoom(roomCode, host), appended to rooms; its index is Len(rooms)+1
GameRoom(roomCode, host) ==
    [roomCode |-> roomCode, host |-> host, players |-> <<host>>,
     status |-> "waiting", gameStartTime |-> 0, scores |-> EmptyMap,
     timerInterval |-> FALSE, timeRemaining |-> GAME_DURATION,
     readyPlayers |-> {}]

\* variant: full only once capacity is exceeded
isFullOffByOne(room) == Len(room.players) > MAX_PLAYERS

isFull(room) == Len(room.players) >= MAX_PLAYERS

\* room.addPlayer(player): player is a heap reference, u its username
addPlayer(room, player, u) ==
    IF Len(room.players) < MAX_PLAYERS /\ room.status = "waiting"
    THEN [room EXCEPT !.players = Append(@, player), !.scores = MapSet(@, u, 0)]
    ELSE room

\* room.removePlayer(socketId): needs the heap to read p.socketId
removePlayer(w, room, s) ==
    [room EXCEPT !.players =
        Filter(@, {i \in 1..Len(@) : w.heap[@[i]].socketId = s})]

updateScoreOf(room, u, v) == [room EXCEPT !.scores = MapSet(@, u, v)]

\* variant: the interval is never cleared
stopTimerNoClear(room) == room

stopTimer(room) == [room EXCEPT !.timerInterval = FALSE]

startTimer(room) == [room EXCEPT !.timeRemaining = GAME_DURATION, !.timerInterval = TRUE]

RECURSIVE InsertDesc(_, _)
\* insert x after every element with score >= x.score (a stable descending sort)
InsertDesc(sorted, x) ==
    IF sorted = <<>> THEN <<x>>
    ELSE IF Head(sorted).score >= x.score
         THEN <<Head(sorted)>> \o InsertDesc(Tail(sorted), x)
         ELSE <<x>> \o sorted

\* variant: the results left in player order
Unsorted(seq) == seq

RECURSIVE SortDesc(_)
SortDesc(seq) ==
    IF seq = <<>> THEN <<>>
    ELSE InsertDesc(SortDesc(SubSeq(seq, 1, Len(seq) - 1)), seq[Len(seq)])

\* room.getResults()
getResults(w, room) ==
    SortDesc([i \in 1..Len(room.players) |->
                 [username |-> w.heap[room.players[i]].username,
                  score |-> MapGet0(room.scores, w.heap[room.players[i]].username),
                  disconnected |-> FALSE]])

PlayerNames(w, room) == [i \in 1..Len(room.players) |-> w.heap[room.players[i]].username]

\* ------------------------------------------------------ stats and log
\* variant: a draw credited like a decided game (a win for the first row)
updateOneUserDrawAsWin(us, result, index, isDraw) ==
    IF result.username \notin DOMAIN us THEN us
    ELSE [us EXCEPT ![result.username] =
            [@ EXCEPT !.gamesPlayed = @ + 1,
                      !.totalScore = @ + result.score,
                      !.wins = IF index = 0 THEN @ + 1 ELSE @,
                      !.losses = IF index = 0 THEN @ ELSE @ + 1,
                      !.highScore = IF result.score > @ THEN result.score ELSE @]]

\* one iteration of updateUserStats' forEach: result at position index (0-based)
updateOneUser(us, result, index, isDraw) ==
    IF result.username \notin DOMAIN us THEN us          \* if (user) ... : skipped
    ELSE LET st == us[result.username]
             st1 == [st EXCEPT !.gamesPlayed = @ + 1,
                               !.totalScore = @ + result.score]
             st2 == IF isDraw THEN [st1 EXCEPT !.draws = @ + 1]
                    ELSE IF index = 0 THEN [st1 EXCEPT !.wins = @ + 1]
                    ELSE [st1 EXCEPT !.losses = @ + 1]
             st3 == IF result.score > st2.highScore
                    THEN [st2 EXCEPT !.highScore = result.score] ELSE st2
         IN [us EXCEPT ![result.username] = st3]

RECURSIVE foldUsers(_, _, _, _)
foldUsers(us, results, index, isDraw) ==
    IF index >= Len(results) THEN us
    ELSE foldUsers(updateOneUser(us, results[index + 1], index, isDraw),
                   results, index + 1, isDraw)

updateUserStats(w, results, isDraw) ==
    [w EXCEPT !.users = foldUsers(@, results, 0, isDraw)]

\* saveMatch(room, results, isDraw); `room` (the room object's index) stands
\* for the record's identity of the room object next to its roomCode
saveMatch(w, r, results, isDraw) ==
    [w EXCEPT !.matches = Append(@,
        [room |-> r,
         roomCode |-> w.rooms[r].roomCode,
         players |-> PlayerNames(w, w.rooms[r]),
         results |-> results,
         isDraw |-> isDraw,
         winner |-> IF isDraw \/ results = <<>> THEN NoName
                    ELSE results[1].username])]

\* setTimeout(() => activeRooms.delete(roomCode), ...)
scheduleCleanup(w, c) == [w EXCEPT !.cleanupTimeouts[c] = @ + 1]

\* ---------------------------------------------------------------- endGame
\* io.to(c).emit(ev, arg)
EmitRoom(w, c, ev, arg) == Emit(w, RoomSockets(w, c), ev, arg)

endGame(w, c) ==
    LET r == w.activeRooms[c] IN
    IF r = NoRoom THEN w
    ELSE IF w.rooms[r].status = "finished" THEN w
    ELSE With(getResults(w, w.rooms[r]), LAMBDA results :
         LET isDraw == Len(results) >= 2 /\ results[1].score = results[2].score
             winner == IF isDraw \/ results = <<>> THEN NoName ELSE results[1].username
         IN scheduleCleanup(
              EmitRoom(
                saveMatch(
                  updateUserStats(
                    [w EXCEPT !.rooms[r] = stopTimer([@ EXCEPT !.status = "finished"])],
                    results, isDraw),
                  r, results, isDraw),
                c, "gameOver",
                [results |-> results, winner |-> winner, isDraw |-> isDraw]),
              c))

\* ------------------------------------------------------ handlePlayerLeave
Min(S) == CHOOSE x \in S : \A y \in S : x <= y

\* io.to(roomCode).emit('playerLeft', ...)
emitPlayerLeft(w, r, c) ==
    EmitRoom(w, c, "playerLeft",
             [players |-> PlayerNames(w, w.rooms[r]),
              playerCount |-> Len(w.rooms[r].players)])

\* variant: the forfeit branch entered whatever the room's status
gameInProgressAnyStatus(room) == Len(room.players) = 2

\* room.status === 'playing' && room.players.length === 2
gameInProgress(room) == room.status = "playing" /\ Len(room.players) = 2

handlePlayerLeave(w, s, c) ==
    LET r == w.activeRooms[c]
        leavingPlayer == w.playerSockets[s]
    IN
    IF r = NoRoom THEN w
    ELSE LET room == w.rooms[r] IN
    IF gameInProgress(room)
    THEN \* forfeit: the remaining player wins
         LET rem == {i \in 1..Len(room.players) : w.heap[room.players[i]].socketId # s}
             leavingPlayerName == IF leavingPlayer # NoRef
                                  THEN w.heap[leavingPlayer].username ELSE OPPONENT
             finished == [w EXCEPT !.rooms[r] = [stopTimer(@) EXCEPT !.status = "finished"]]
         IN IF rem = {} THEN scheduleCleanup(finished, c)
            ELSE LET remainingPlayer == w.heap[room.players[Min(rem)]]
                     winnerScore == MapGet0(room.scores, remainingPlayer.username)
                     results == << [username |-> remainingPlayer.username,
                                    score |-> winnerScore, disconnected |-> FALSE],
                                   [username |-> leavingPlayerName,
                                    score |-> 0, disconnected |-> TRUE] >>
                 IN scheduleCleanup(
                      EmitRoom(
                        saveMatch(
                          updateUserStats(
                            [finished EXCEPT !.rooms[r].scores =
                                MapSet(@, leavingPlayerName, 0)],
                            results, FALSE),
                          r, results, FALSE),
                        c, "opponentDisconnected",
                        [results |-> results, winner |-> results[1].username]),
                      c)
    ELSE \* game not in progress: normal leave
         LET left == removePlayer(w, room, s) IN
         IF Len(left.players) = 0
         THEN [w EXCEPT !.rooms[r] = stopTimer(left),
                        !.joined[s] = @ \ {c},
                        !.activeRooms[c] = NoRoom]
         ELSE emitPlayerLeft([w EXCEPT !.rooms[r] = left, !.joined[s] = @ \ {c}], r, c)

\* ------------------------------------------------------- socket handlers
authenticate(w, s, u) ==
    Emit([Alloc(w, NewObj(s, u, NoCode)) EXCEPT !.playerSockets[s] = NextRef(w)],
         {s}, "authenticated", s)

\* variant: the drawn code returned without the activeRooms.has(code) test
generateRoomCodeUnchecked(w) == Codes

\* generateRoomCode(): any code no active room holds
generateRoomCode(w) == {c \in Codes : w.activeRooms[c] = NoRoom}

\* socket.emit('roomCreated', ...)
emitRoomCreated(w, s, code) ==
    Emit(w, {s}, "roomCreated",
         [roomCode |-> code, players |-> PlayerNames(w, w.rooms[w.activeRooms[code]])])

\* createRoom; code is generateRoomCode()'s result
createRoom(w, s, u, code) ==
    LET had == w.playerSockets[s] # NoRef
        player == IF had THEN w.playerSockets[s] ELSE NextRef(w)
    IN emitRoomCreated(
         [(IF had THEN w ELSE Alloc(w, NewObj(s, u, NoCode))) EXCEPT
             !.rooms = Append(@, GameRoom(code, player)),
             !.activeRooms[code] = Len(w.rooms) + 1,
             !.joined[s] = @ \cup {code},
             !.heap[player].roomCode = code,
             !.playerSockets[s] = player],
         s, code)

\* io.to(roomCode).emit('playerJoined', ...)
emitPlayerJoined(w, r, c) ==
    EmitRoom(w, c, "playerJoined",
             [players |-> PlayerNames(w, w.rooms[r]),
              playerCount |-> Len(w.rooms[r].players),
              isFull |-> isFull(w.rooms[r])])

joinRoom(w, s, c, u) ==
    LET r == w.activeRooms[c] IN
    IF r = NoRoom THEN Emit(w, {s}, "error", "Room not found")
    ELSE IF w.rooms[r].status # "waiting" THEN Emit(w, {s}, "error", "Game already started")
    ELSE IF isFull(w.rooms[r]) THEN Emit(w, {s}, "error", "Room is full")
    ELSE emitPlayerJoined(
           [Alloc(w, NewObj(s, u, c)) EXCEPT
               !.rooms[r] = addPlayer(@, NextRef(w), u),
               !.joined[s] = @ \cup {c},
               !.playerSockets[s] = NextRef(w)],
           r, c)

\* io.to(roomCode).emit('gameStarting', ...)
emitGameStarting(w, r, c) ==
    EmitRoom(w, c, "gameStarting",
             [countdown |-> 3, players |-> PlayerNames(w, w.rooms[r]),
              gameDuration |-> GAME_DURATION])

\* the waiting -> playing entry, written twice in the source
\* (rejoinRoom and startGame): status, start time, scores, gameStarting,
\* and the 4000 ms callback that captures the room object
beginGame(w, r, c) ==
    LET names == {w.heap[w.rooms[r].players[i]].username : i \in 1..Len(w.rooms[r].players)}
    IN [emitGameStarting(
          [w EXCEPT !.rooms[r] =
              [@ EXCEPT !.status = "playing",
                        !.gameStartTime = 1,
                        !.scores = [k \in (DOMAIN @) \cup names |->
                                       IF k \in names THEN 0 ELSE @[k]]]],
          r, c)
        EXCEPT !.startTimeouts = @ \cup {r}]

\* socket.emit('rejoinedRoom', ...) and the all-ready check after it
rejoinedRoom(w, s, r, c) ==
    With(Emit(w, {s}, "rejoinedRoom",
              [roomCode |-> c, players |-> PlayerNames(w, w.rooms[r]),
               status |-> w.rooms[r].status]),
    LAMBDA w1 :
        IF Cardinality(w.rooms[r].readyPlayers) >= READY_TO_START
           /\ w.rooms[r].status = "waiting"
        THEN beginGame(w1, r, c)
        ELSE w1)

\* playerSockets.set(socket.id, {...}) and readyPlayers.add(username)
rejoinRegister(w, s, r, c, u) ==
    [Alloc(w, NewObj(s, u, c)) EXCEPT
        !.joined[s] = @ \cup {c},
        !.playerSockets[s] = NextRef(w),
        !.rooms[r].readyPlayers = @ \cup {u}]

rejoinRoom(w, s, c, u) ==
    LET r == w.activeRooms[c] IN
    IF r = NoRoom THEN Emit(w, {s}, "error", "Room not found")
    ELSE LET room == w.rooms[r]
             same == {i \in 1..Len(room.players) : w.heap[room.players[i]].username = u}
         IN rejoinedRoom(
              rejoinRegister(
                IF same # {}
                THEN [w EXCEPT !.heap[room.players[Min(same)]].socketId = s]
                ELSE [Alloc(w, NewObj(s, u, NoCode)) EXCEPT
                         !.rooms[r].players = Append(@, NextRef(w))],
                s, r, c, u),
              s, r, c)

RECURSIVE cleanQueueNoTimeout(_)
\* variant: the loop drops disconnected heads only, never timed-out ones
cleanQueueNoTimeout(w) ==
    IF w.matchmakingQueue = <<>> THEN w
    ELSE IF ~Connected(w, Head(w.matchmakingQueue).socketId)
         THEN cleanQueueNoTimeout([w EXCEPT !.matchmakingQueue = Tail(@)])
         ELSE w

RECURSIVE cleanQueue(_)
\* findMatch's while loop: drop stale and timed-out heads
cleanQueue(w) ==
    IF w.matchmakingQueue = <<>> THEN w
    ELSE LET waitingPlayer == Head(w.matchmakingQueue) IN
         IF ~Connected(w, waitingPlayer.socketId)
         THEN cleanQueue([w EXCEPT !.matchmakingQueue = Tail(@)])
         ELSE IF waitingPlayer.waited > MATCHMAKING_TIMEOUT
              THEN cleanQueue(Emit([w EXCEPT !.matchmakingQueue = Tail(@)],
                                   {waitingPlayer.socketId},
                                   "matchmakingTimeout", "Matchmaking timed out"))
              ELSE w

\* findMatch's forEach body for one matched player p
registerMatched(w, p, code) ==
    IF ~Connected(w, p.socketId) THEN w
    ELSE LET had == w.playerSockets[p.socketId] # NoRef
             playerData == IF had THEN w.playerSockets[p.socketId] ELSE NextRef(w)
         IN [(IF had THEN w ELSE Alloc(w, NewObj(p.socketId, p.username, NoCode))) EXCEPT
                !.joined[p.socketId] = @ \cup {code},
                !.heap[playerData].roomCode = code,
                !.playerSockets[p.socketId] = playerData]

\* variant: the position reported is the queue length before the push
enqueueFromZero(w, s, u) ==
    Emit([w EXCEPT !.matchmakingQueue =
             Append(@, [socketId |-> s, username |-> u, waited |-> 0])],
         {s}, "searching", Len(w.matchmakingQueue))

\* matchmakingQueue.push(player); socket.emit('searching', ...)
enqueue(w, s, u) ==
    Emit([w EXCEPT !.matchmakingQueue =
             Append(@, [socketId |-> s, username |-> u, waited |-> 0])],
         {s}, "searching", Len(w.matchmakingQueue) + 1)

\* io.to(roomCode).emit('matchFound', ...); room.readyPlayers = new Set()
emitMatchFound(w, r, code) ==
    [EmitRoom(w, code, "matchFound",
              [roomCode |-> code,
               players |-> PlayerNames(w, w.rooms[r]),
               playerCount |-> Len(w.rooms[r].players)])
     EXCEPT !.rooms[r].readyPlayers = {}]

\* findMatch once player1 has been taken off the queue (w is the state after
\* the shift)
formRoom(w, player1, s, u, code) ==
    IF ~Connected(w, player1.socketId) THEN enqueue(w, s, u)
    ELSE LET ref1 == NextRef(w)
             r == Len(w.rooms) + 1
             player == [socketId |-> s, username |-> u]
             allPlayersJoined == Connected(w, player1.socketId) /\ Connected(w, s)
         IN With(registerMatched(
                   registerMatched(
                     [Alloc(Alloc(w, NewObj(player1.socketId, player1.username, NoCode)),
                            NewObj(s, u, NoCode))
                      EXCEPT !.rooms = Append(@, addPlayer(GameRoom(code, ref1), ref1 + 1, u)),
                             !.activeRooms[code] = r],
                     player1, code),
                   player, code),
            LAMBDA w1 :
                IF ~allPlayersJoined
                THEN enqueue([w1 EXCEPT !.activeRooms[code] = NoRoom], s, u)
                ELSE emitMatchFound(w1, r, code))

\* variant: a room is formed only once two players wait, as for a match of 3
matchOrQueueOfThree(w, s, u, code) ==
    IF Len(w.matchmakingQueue) >= 2
    THEN formRoom([w EXCEPT !.matchmakingQueue = Tail(@)],
                  Head(w.matchmakingQueue), s, u, code)
    ELSE enqueue(w, s, u)

\* the rest of findMatch, after the cleanup loop
matchOrQueue(w, s, u, code) ==
    IF Len(w.matchmakingQueue) >= 1
    THEN formRoom([w EXCEPT !.matchmakingQueue = Tail(@)],
                  Head(w.matchmakingQueue), s, u, code)
    ELSE enqueue(w, s, u)

\* findMatch; code is generateRoomCode()'s result when a room is formed
findMatch(w, s, u, code) == matchOrQueue(cleanQueue(w), s, u, code)

\* whether findMatch will construct a room (and so call generateRoomCode)
FormsRoom(w) == Len(cleanQueue(w).matchmakingQueue) >= 1

cancelMatchmaking(w, s) ==
    LET idx == {i \in 1..Len(w.matchmakingQueue) : w.matchmakingQueue[i].socketId = s}
    IN IF idx = {} THEN w
       ELSE Emit([w EXCEPT !.matchmakingQueue = Filter(@, {Min(idx)})],
                 {s}, "matchmakingCancelled", 0)

\* variant: startGame without the players.length < 2 test
startGameAnyCount(w, s, c) ==
    LET r == w.activeRooms[c] IN
    IF r = NoRoom THEN Emit(w, {s}, "error", "Room not found")
    ELSE IF w.rooms[r].status # "waiting" THEN Emit(w, {s}, "error", "Game already started")
    ELSE beginGame(w, r, c)

startGame(w, s, c) ==
    LET r == w.activeRooms[c] IN
    IF r = NoRoom THEN Emit(w, {s}, "error", "Room not found")
    ELSE IF w.rooms[r].status # "waiting" THEN Emit(w, {s}, "error", "Game already started")
    ELSE IF Len(w.rooms[r].players) < 2 THEN Emit(w, {s}, "error", "Need 2 players to start")
    ELSE beginGame(w, r, c)

\* io.to(roomCode).emit('scoresUpdate', ...)
emitScores(w, r, c) == EmitRoom(w, c, "scoresUpdate", w.rooms[r].scores)

\* variant: updateScore without the status === 'playing' test
updateScoreAnyPhase(w, s, c, score) ==
    LET r == w.activeRooms[c]
        player == w.playerSockets[s]
    IN IF r # NoRoom /\ player # NoRef
       THEN emitScores([w EXCEPT !.rooms[r] =
                           updateScoreOf(@, w.heap[player].username, score)], r, c)
       ELSE w

updateScore(w, s, c, score) ==
    LET r == w.activeRooms[c]
        player == w.playerSockets[s]
    IN IF r # NoRoom /\ player # NoRef /\ w.rooms[r].status = "playing"
       THEN emitScores([w EXCEPT !.rooms[r] =
                           updateScoreOf(@, w.heap[player].username, score)], r, c)
       ELSE w

\* variant: gameFinished recorded only while the room is playing
gameFinishedWhilePlaying(w, s, c, finalScore) ==
    LET r == w.activeRooms[c]
        player == w.playerSockets[s]
    IN IF r # NoRoom /\ player # NoRef /\ w.rooms[r].status = "playing"
       THEN [w EXCEPT !.rooms[r] = updateScoreOf(@, w.heap[player].username, finalScore)]
       ELSE w

gameFinished(w, s, c, finalScore) ==
    LET r == w.activeRooms[c]
        player == w.playerSockets[s]
    IN IF r # NoRoom /\ player # NoRef
       THEN [w EXCEPT !.rooms[r] = updateScoreOf(@, w.heap[player].username, finalScore)]
       ELSE w

leaveRoom(w, s, c) == handlePlayerLeave(w, s, c)

\* variant: the 'disconnect' handler without playerSockets.delete(socket.id)
onDisconnectKeepEntry(w, s) ==
    LET player == w.playerSockets[s] IN
    IF player = NoRef THEN w
    ELSE LET idx == {i \in 1..Len(w.matchmakingQueue) : w.matchmakingQueue[i].socketId = s}
             c == w.heap[player].roomCode
             w1 == IF idx = {} THEN w
                   ELSE [w EXCEPT !.matchmakingQueue = Filter(@, {Min(idx)})]
         IN IF c # NoCode THEN handlePlayerLeave(w1, s, c) ELSE w1

\* the body of the 'disconnect' handler
onDisconnect(w, s) ==
    LET player == w.playerSockets[s] IN
    IF player = NoRef THEN w
    ELSE LET idx == {i \in 1..Len(w.matchmakingQueue) : w.matchmakingQueue[i].socketId = s}
             c == w.heap[player].roomCode
             w1 == IF idx = {} THEN w
                   ELSE [w EXCEPT !.matchmakingQueue = Filter(@, {Min(idx)})]
         IN [(IF c # NoCode THEN handlePlayerLeave(w1, s, c) ELSE w1)
             EXCEPT !.playerSockets[s] = NoRef]

\* a transport close: socket.io takes the socket out of io.sockets.sockets
\* and out of its rooms, then runs the 'disconnect' handler
disconnect(w, s) ==
    onDisconnect([w EXCEPT !.sockets[s] = "closed", !.joined[s] = {}], s)

\* --------------------------------------------------------- timer callbacks
\* the 4000 ms callback of beginGame, which captured room r
startTimeoutFired(w, r) ==
    IF w.rooms[r].status = "playing"
    THEN [EmitRoom(w, w.rooms[r].roomCode, "gameStarted", GAME_DURATION)
          EXCEPT !.rooms[r] = startTimer(@), !.startTimeouts = @ \ {r}]
    ELSE [w EXCEPT !.startTimeouts = @ \ {r}]

\* the interval callback after this.timeRemaining--
ticked(w, r) ==
    IF w.rooms[r].timeRemaining <= 0
    THEN endGame([EmitRoom(w, w.rooms[r].roomCode, "timerUpdate", w.rooms[r].timeRemaining)
                  EXCEPT !.rooms[r] = stopTimer(@)],
                 w.rooms[r].roomCode)
    ELSE EmitRoom(w, w.rooms[r].roomCode, "timerUpdate", w.rooms[r].timeRemaining)

\* one run of the setInterval callback of room r
tick(w, r) == ticked([w EXCEPT !.rooms[r].timeRemaining = @ - 1], r)

\* k >= 1 consecutive runs of the interval callback, of which only the last
\* may reach 0: the runs before it decrement timeRemaining and send a
\* timerUpdate each; out keeps the last run's messages
ticks(w, r, k) ==
    tick([w EXCEPT !.out = <<>>, !.rooms[r].timeRemaining = @ - (k - 1)], r)

\* the delayed activeRooms.delete(roomCode)
cleanupFired(w, c) ==
    [w EXCEPT !.cleanupTimeouts[c] = @ - 1, !.activeRooms[c] = NoRoom]

\* time passes for the queue: Date.now() - joinedAt reaches exactly the
\* timeout, then exceeds it
timePasses(w) ==
    [w EXCEPT !.matchmakingQueue =
        [i \in 1..Len(@) |->
            [@[i] EXCEPT !.waited = IF @ < MATCHMAKING_TIMEOUT
                                    THEN MATCHMAKING_TIMEOUT
                                    ELSE MATCHMAKING_TIMEOUT + 1]]]

\* the event being handled: its name, the socket it came from (0 for a
\* timer), and its room code, username, score or room object where it has one
Event(ev, s, c, u, v, r) ==
    [ev |-> ev, socket |-> s, code |-> c, name |-> u, val |-> v, room |-> r]

\* ------------------------------------------------------------------ Init
\* how many connections a run opens, and how many client events it carries
Shapes == { [sockets |-> 1, events |-> Events1],
            [sockets |-> 2, events |-> Events2],
            [sockets |-> 3, events |-> Events3] }

ZeroStats == [gamesPlayed |-> 0, wins |-> 0, losses |-> 0, draws |-> 0,
              totalScore |-> 0, highScore |-> 0]

Init ==
    /\ \E shape \in Shapes :
          /\ sockets = [s \in Sockets |-> IF s <= shape.sockets THEN "new" ELSE "closed"]
          /\ nev = shape.events
    /\ playerSockets = [s \in Sockets |-> NoRef]
    /\ heap = <<>>
    /\ activeRooms = [c \in Codes |-> NoRoom]
    /\ rooms = <<>>
    /\ matchmakingQueue = <<>>
    /\ joined = [s \in Sockets |-> {}]
    /\ startTimeouts = {}
    /\ cleanupTimeouts = [c \in Codes |-> 0]
    /\ users = [u \in Names |-> ZeroStats]
    /\ matches = <<>>
    /\ out = <<>>
    /\ last = Event("listen", 0, NoCode, NoName, 0, NoRoom)

\* ---------------------------------------------------------------- actions
ClientEvent(s) == /\ sockets[s] = "live"
                  /\ nev > 0
                  /\ nev' = nev - 1

\* a new transport connects; ids are handed out in order
Connect(s) ==
    /\ sockets[s] = "new"
    /\ \A t \in Sockets : t < s => sockets[t] # "new"
    /\ Becomes([World EXCEPT !.sockets[s] = "live"])
    /\ last' = Event("connection", s, NoCode, NoName, 0, NoRoom)
    /\ UNCHANGED nev

Authenticate(s, u) ==
    /\ ClientEvent(s)
    /\ Becomes(authenticate(World, s, u))
    /\ last' = Event("authenticate", s, NoCode, u, 0, NoRoom)

CreateRoom(s, u) ==
    /\ ClientEvent(s)
    /\ Len(rooms) < MaxRooms
    /\ \E code \in generateRoomCode(World) :
          /\ Becomes(createRoom(World, s, u, code))
          /\ last' = Event("createRoom", s, code, u, 0, NoRoom)

JoinRoom(s, c, u) ==
    /\ ClientEvent(s)
    /\ Becomes(joinRoom(World, s, c, u))
    /\ last' = Event("joinRoom", s, c, u, 0, NoRoom)

RejoinRoom(s, c, u) ==
    /\ ClientEvent(s)
    /\ Becomes(rejoinRoom(World, s, c, u))
    /\ last' = Event("rejoinRoom", s, c, u, 0, NoRoom)

FindMatch(s, u) ==
    /\ ClientEvent(s)
    /\ IF FormsRoom(World)
       THEN /\ Len(rooms) < MaxRooms
            /\ \E code \in generateRoomCode(World) :
                  /\ Becomes(findMatch(World, s, u, code))
                  /\ last' = Event("findMatch", s, code, u, 0, NoRoom)
       ELSE /\ Becomes(findMatch(World, s, u, NoCode))
            /\ last' = Event("findMatch", s, NoCode, u, 0, NoRoom)

CancelMatchmaking(s) ==
    /\ ClientEvent(s)
    /\ Becomes(cancelMatchmaking(World, s))
    /\ last' = Event("cancelMatchmaking", s, NoCode, NoName, 0, NoRoom)

StartGame(s, c) ==
    /\ ClientEvent(s)
    /\ Becomes(startGame(World, s, c))
    /\ last' = Event("startGame", s, c, NoName, 0, NoRoom)

UpdateScore(s, c, v) ==
    /\ ClientEvent(s)
    /\ Becomes(updateScore(World, s, c, v))
    /\ last' = Event("updateScore", s, c, NoName, v, NoRoom)

GameFinished(s, c, v) ==
    /\ ClientEvent(s)
    /\ Becomes(gameFinished(World, s, c, v))
    /\ last' = Event("gameFinished", s, c, NoName, v, NoRoom)

LeaveRoom(s, c) ==
    /\ ClientEvent(s)
    /\ Becomes(leaveRoom(World, s, c))
    /\ last' = Event("leaveRoom", s, c, NoName, 0, NoRoom)

Disconnect(s) ==
    /\ ClientEvent(s)
    /\ Becomes(disconnect(World, s))
    /\ last' = Event("disconnect", s, NoCode, NoName, 0, NoRoom)

StartTimeout(r) ==
    /\ r \in startTimeouts
    /\ Becomes(startTimeoutFired(World, r))
    /\ last' = Event("startTimeout", 0, rooms[r].roomCode, NoName, 0, r)
    /\ UNCHANGED nev

\* the interval callback, one run at a time near the end of the game
TimerTick(r) ==
    /\ r \in 1..Len(rooms)
    /\ rooms[r].timerInterval
    /\ rooms[r].timeRemaining <= TickWindow
    /\ Becomes(tick(World, r))
    /\ last' = Event("tick", 0, rooms[r].roomCode, NoName, 0, r)
    /\ UNCHANGED nev

\* the interval callback run back to back, with no other event in between,
\* until TickWindow seconds remain
TimerRun(r) ==
    /\ r \in 1..Len(rooms)
    /\ rooms[r].timerInterval
    /\ rooms[r].timeRemaining > TickWindow
    /\ Becomes(ticks(World, r, rooms[r].timeRemaining - TickWindow))
    /\ last' = Event("tick", 0, rooms[r].roomCode, NoName, 0, r)
    /\ UNCHANGED nev

CleanupTimeout(c) ==
    /\ cleanupTimeouts[c] > 0
    /\ Becomes(cleanupFired(World, c))
    /\ last' = Event("cleanupTimeout", 0, c, NoName, 0, NoRoom)
    /\ UNCHANGED nev

TimePasses ==
    /\ matchmakingQueue # <<>>
    /\ \E i \in 1..Len(matchmakingQueue) : matchmakingQueue[i].waited <= MATCHMAKING_TIMEOUT
    /\ Becomes(timePasses(World))
    /\ last' = Event("timePasses", 0, NoCode, NoName, 0, NoRoom)
    /\ UNCHANGED nev

Next ==
    \/ \E s \in Sockets : Connect(s)
    \/ \E s \in Sockets, u \in Names : Authenticate(s, u)
    \/ \E s \in Sockets, u \in Names : CreateRoom(s, u)
    \/ \E s \in Sockets, c \in Codes, u \in Names : JoinRoom(s, c, u)
    \/ \E s \in Sockets, c \in Codes, u \in Names : RejoinRoom(s, c, u)
    \/ \E s \in Sockets, u \in Names : FindMatch(s, u)
    \/ \E s \in Sockets : CancelMatchmaking(s)
    \/ \E s \in Sockets, c \in Codes : StartGame(s, c)
    \/ \E s \in Sockets, c \in Codes, v \in Scores : UpdateScore(s, c, v)
    \/ \E s \in Sockets, c \in Codes, v \in Scores : GameFinished(s, c, v)
    \/ \E s \in Sockets, c \in Codes : LeaveRoom(s, c)
    \/ \E s \in Sockets : Disconnect(s)
    \/ \E r \in 1..MaxRooms : StartTimeout(r)
    \/ \E r \in 1..MaxRooms : TimerTick(r)
    \/ \E r \in 1..MaxRooms : TimerRun(r)
    \/ \E c \in Codes : CleanupTimeout(c)
    \/ TimePasses

Spec == Init /\ [][Next]_vars

\* ------------------------------------------------- private rooms, one client
\* Longer runs of the private-room handlers alone: one connection that
\* creates, joins, rejoins, starts and leaves rooms, and the timers.
InitPrivate ==
    /\ sockets = [s \in Sockets |-> IF s = 1 THEN "new" ELSE "closed"]
    /\ nev = EventsPrivate
    /\ playerSockets = [s \in Sockets |-> NoRef]
    /\ heap = <<>>
    /\ activeRooms = [c \in Codes |-> NoRoom]
    /\ rooms = <<>>
    /\ matchmakingQueue = <<>>
    /\ joined = [s \in Sockets |-> {}]
    /\ startTimeouts = {}
    /\ cleanupTimeouts = [c \in Codes |-> 0]
    /\ users = [u \in Names |-> ZeroStats]
    /\ matches = <<>>
    /\ out = <<>>
    /\ last = Event("listen", 0, NoCode, NoName, 0, NoRoom)

NextPrivate ==
    \/ \E s \in Sockets : Connect(s)
    \/ \E s \in Sockets, u \in Names : CreateRoom(s, u)
    \/ \E s \in Sockets, c \in Codes, u \in Names : JoinRoom(s, c, u)
    \/ \E s \in Sockets, c \in Codes, u \in Names : RejoinRoom(s, c, u)
    \/ \E s \in Sockets, c \in Codes : StartGame(s, c)
    \/ \E s \in Sockets, c \in Codes : LeaveRoom(s, c)
    \/ \E r \in 1..MaxRooms : StartTimeout(r)
    \/ \E r \in 1..MaxRooms : TimerTick(r)
    \/ \E r \in 1..MaxRooms : TimerRun(r)
    \/ \E c \in Codes : CleanupTimeout(c)

SpecPrivate == InitPrivate /\ [][NextPrivate]_vars

\* Node fires every pending timer: a start callback, a running interval and
\* a delayed delete each run eventually, whatever the clients do.
TimersFire ==
    /\ \A r \in 1..MaxRooms : WF_vars(StartTimeout(r))
    /\ \A r \in 1..MaxRooms : WF_vars(TimerTick(r) \/ TimerRun(r))
    /\ \A c \in Codes : WF_vars(CleanupTimeout(c))

SpecPrivateFair == SpecPrivate /\ TimersFire

\* ------------------------------------------------ one game, two connections
\* Longer runs of a private game between two connections: authenticate,
\* create, join, start, then leave or close, and the timers.
InitDuel ==
    /\ sockets = [s \in Sockets |-> IF s <= 2 THEN "new" ELSE "closed"]
    /\ nev = EventsDuel
    /\ playerSockets = [s \in Sockets |-> NoRef]
    /\ heap = <<>>
    /\ activeRooms = [c \in Codes |-> NoRoom]
    /\ rooms = <<>>
    /\ matchmakingQueue = <<>>
    /\ joined = [s \in Sockets |-> {}]
    /\ startTimeouts = {}
    /\ cleanupTimeouts = [c \in Codes |-> 0]
    /\ users = [u \in Names |-> ZeroStats]
    /\ matches = <<>>
    /\ out = <<>>
    /\ last = Event("listen", 0, NoCode, NoName, 0, NoRoom)

NextDuel ==
    \/ \E s \in Sockets : Connect(s)
    \/ \E s \in Sockets, u \in Names : Authenticate(s, u)
    \/ \E s \in Sockets, u \in Names : CreateRoom(s, u)
    \/ \E s \in Sockets, c \in Codes, u \in Names : JoinRoom(s, c, u)
    \/ \E s \in Sockets, c \in Codes : StartGame(s, c)
    \/ \E s \in Sockets, c \in Codes : LeaveRoom(s, c)
    \/ \E s \in Sockets : Disconnect(s)
    \/ \E r \in 1..MaxRooms : StartTimeout(r)
    \/ \E r \in 1..MaxRooms : TimerTick(r)
    \/ \E r \in 1..MaxRooms : TimerRun(r)
    \/ \E c \in Codes : CleanupTimeout(c)

SpecDuel == InitDuel /\ [][NextDuel]_vars

\* ------------------------------------------------------ the rejoin handshake
\* Runs that begin when findMatch has just paired x on connection 1 with y
\* on connection 2 and sent them matchFound: both clients change page, so
\* each original connection closes and each player sends rejoinRoom for the
\* room from a new connection, in any order; the start callback may run in
\* between.
HandshakeCode == "C1"                \* the code generateRoomCode drew for the room
Originals == {1, 2}                  \* the connections findMatch paired
Returning == {3, 4}                  \* the connections of the reloaded pages

\* the server with connections 1 and 2 open and nothing sent yet
Listening ==
    [sockets |-> [s \in Sockets |-> IF s \in Originals THEN "live" ELSE "new"],
     playerSockets |-> [s \in Sockets |-> NoRef], heap |-> <<>>,
     activeRooms |-> [c \in Codes |-> NoRoom], rooms |-> <<>>,
     matchmakingQueue |-> <<>>, joined |-> [s \in Sockets |-> {}],
     startTimeouts |-> {}, cleanupTimeouts |-> [c \in Codes |-> 0],
     users |-> [u \in Names |-> ZeroStats], matches |-> <<>>, out |-> <<>>]

\* findMatch(x) from connection 1, then findMatch(y) from connection 2
Matched(x, y) ==
    Collect(findMatch([findMatch(Listening, 1, x, NoCode) EXCEPT !.out = <<>>],
                      2, y, HandshakeCode))

InitHandshake ==
    /\ \E x, y \in Names :
          /\ x # y
          /\ \E m \in {Matched(x, y)} :
                /\ sockets = m.sockets
                /\ playerSockets = m.playerSockets
                /\ heap = m.heap
                /\ activeRooms = m.activeRooms
                /\ rooms = m.rooms
                /\ matchmakingQueue = m.matchmakingQueue
                /\ joined = m.joined
                /\ startTimeouts = m.startTimeouts
                /\ cleanupTimeouts = m.cleanupTimeouts
                /\ users = m.users
                /\ matches = m.matches
                /\ out = m.out
          /\ last = Event("findMatch", 2, HandshakeCode, y, 0, NoRoom)
    /\ nev = EventsHandshake

\* a reloaded page sends its one rejoinRoom, under a name the other reloaded
\* page does not use
HandshakeRejoin(s, u) ==
    /\ playerSockets[s] = NoRef
    /\ \A t \in Returning \ {s} :
          IF playerSockets[t] = NoRef THEN TRUE
          ELSE heap[playerSockets[t]].username # u
    /\ RejoinRoom(s, HandshakeCode, u)

NextHandshake ==
    \/ \E s \in Returning : Connect(s)
    \/ \E s \in Originals : Disconnect(s)
    \/ \E s \in Returning, u \in Names : HandshakeRejoin(s, u)
    \/ \E r \in 1..MaxRooms : StartTimeout(r)

SpecHandshake == InitHandshake /\ [][NextHandshake]_vars

\* ================================================================ claims
RoomIds == 1..Len(rooms)
ActiveIds == {activeRooms[c] : c \in Codes} \ {NoRoom}
OutEvents(ev) == {i \in DOMAIN out : out[i].ev = ev}

RECURSIVE SumSeq(_)
SumSeq(seq) == IF seq = <<>> THEN 0 ELSE Head(seq) + SumSeq(Tail(seq))

\* how many result rows of the match log name user u
ResultRows(u) ==
    SumSeq([i \in DOMAIN matches |->
              Cardinality({j \in DOMAIN matches[i].results :
                              matches[i].results[j].username = u})])

\* ---- C1
\* C1: under every interleaving of clock expiry, leaveRoom and transport
\* close, a room object has at most one Match Record in the log, and the
\* stats hold exactly one update per logged result row (so at most one stats
\* update per room).
C1_OneOutcomePerRoom ==
    /\ \A r \in RoomIds : Cardinality({i \in DOMAIN matches : matches[i].room = r}) <= 1
    /\ \A u \in Names : users[u].gamesPlayed = ResultRows(u)

\* a two-player game ended by clock expiry, and then a transport close of one
\* of its players was handled while the room was still registered
C1_ExpiryThenDisconnect ==
    /\ last.ev = "disconnect"
    /\ \E i \in DOMAIN matches :
          /\ Len(matches[i].results) = 2
          /\ ~matches[i].results[2].disconnected
          /\ matches[i].room \in ActiveIds
          /\ rooms[matches[i].room].status = "finished"
          /\ Len(rooms[matches[i].room].players) = 1
          /\ playerSockets[last.socket] = NoRef
          /\ \A j \in 1..Len(rooms[matches[i].room].players) :
                heap[rooms[matches[i].room].players[j]].socketId # last.socket

\* ---- C2
PhaseStep(a, b) ==
    \/ b = a
    \/ a = "waiting" /\ b = "playing"
    \/ a = "playing" /\ b = "finished"
    \/ b = "gone"                          \* the room object is unreachable

\* C2: a room's status only ever steps waiting -> playing -> finished: never
\* back, and never from waiting directly to finished.
C2_PhaseOrder ==
    [][\A r \in RoomIds : PhaseStep(rooms[r].status, rooms'[r].status)]_vars

\* ---- C3
\* every registered room carries the code it is registered under, so two
\* codes never name the same room and registered rooms' codes are distinct
RegistryKeyedByCode ==
    \A c \in Codes : activeRooms[c] # NoRoom => rooms[activeRooms[c]].roomCode = c

\* C3: the room codes of the rooms in activeRooms are pairwise distinct, and
\* no handler registers a new room under a code that an active room holds:
\* a code that names a room either keeps naming that room or is freed.
C3_CodesDistinct ==
    /\ [](RegistryKeyedByCode
          /\ \A c1, c2 \in Codes :
                (activeRooms[c1] # NoRoom /\ activeRooms[c1] = activeRooms[c2]) => c1 = c2)
    /\ [][\A c \in Codes :
             activeRooms[c] # NoRoom => activeRooms'[c] \in {activeRooms[c], NoRoom}]_vars

\* both codes are held, one by a private room and one by a matchmaking room
C3_TwoActiveRooms ==
    /\ \A c \in Codes : activeRooms[c] # NoRoom
    /\ last.ev = "findMatch"
    /\ last.code \in Codes
    /\ activeRooms[last.code] = Len(rooms)

\* ---- C4
\* C4: every active room has at most 2 player records.
C4_Capacity ==
    \A r \in ActiveIds : Len(rooms[r].players) <= MAX_PLAYERS

\* ---- C5
\* C5: while an active room is playing, the keys of its scores map are
\* exactly the usernames of its current players.
C5_ScoreKeys ==
    \A r \in ActiveIds :
        rooms[r].status = "playing" =>
            DOMAIN rooms[r].scores =
                {heap[rooms[r].players[i]].username : i \in 1..Len(rooms[r].players)}

\* ---- C6
\* the room whose game the last clock expiry ended
ExpiredRoom == rooms[activeRooms[last.code]]

\* the (username, score) rows of a room's players, scores[username] || 0
PlayerRows(room) ==
    [i \in 1..Len(room.players) |->
        [username |-> heap[room.players[i]].username,
         score |-> MapGet0(room.scores, heap[room.players[i]].username)]]

\* C6: a gameOver sent on clock expiry for a room of at least 2 players lists
\* every player with their score, sorted by score descending; it is a draw
\* with no winner exactly when the two highest scores are equal, and
\* otherwise the winner is the player whose score is strictly highest.
C6_ExpiryOutcome ==
    \A i \in OutEvents("gameOver") :
        LET results == out[i].arg.results
            n == Len(results)
        IN (last.ev = "tick" /\ n >= 2) =>
            /\ \A j \in 1..(n - 1) : results[j].score >= results[j + 1].score
            /\ n = Len(ExpiredRoom.players)
            /\ \A row \in {PlayerRows(ExpiredRoom)[k] : k \in 1..n} :
                  Cardinality({j \in 1..n : results[j].username = row.username
                                            /\ results[j].score = row.score})
                  = Cardinality({k \in 1..n : PlayerRows(ExpiredRoom)[k] = row})
            /\ out[i].arg.isDraw = (results[1].score = results[2].score)
            /\ out[i].arg.isDraw => out[i].arg.winner = NoName
            /\ ~out[i].arg.isDraw =>
                  /\ out[i].arg.winner = results[1].username
                  /\ \A j \in 2..n : results[1].score > results[j].score
            /\ matches[Len(matches)].results = results
            /\ matches[Len(matches)].isDraw = out[i].arg.isDraw

\* a clock expiry ended a game between two players with different scores
C6_ExpiryWithWinner ==
    /\ last.ev = "tick"
    /\ \E i \in OutEvents("gameOver") :
          /\ Len(out[i].arg.results) = 2
          /\ ~out[i].arg.isDraw
          /\ out[i].arg.results[1].username # out[i].arg.results[2].username
          /\ out[i].arg.results[1].score > out[i].arg.results[2].score

\* ---- C7
\* room r is playing with exactly two players on different connections and
\* under different names, and the next event is player i (B) leaving the room
\* or B's transport closing; A is the other player
ForfeitCase(r, i) ==
    /\ rooms[r].status = "playing"
    /\ Len(rooms[r].players) = 2
    /\ LET A == heap[rooms[r].players[3 - i]]
           B == heap[rooms[r].players[i]]
       IN /\ A.socketId # B.socketId
          /\ A.username # B.username
          /\ sockets[B.socketId] = "live"
          /\ last'.socket = B.socketId
          /\ \/ last'.ev = "leaveRoom" /\ last'.code = rooms[r].roomCode
             \/ last'.ev = "disconnect"

ForfeitOutcome(r, i) ==
    LET A == heap[rooms[r].players[3 - i]]
        B == heap[rooms[r].players[i]]
        results == << [username |-> A.username,
                       score |-> MapGet0(rooms[r].scores, A.username),
                       disconnected |-> FALSE],
                      [username |-> B.username, score |-> 0, disconnected |-> TRUE] >>
    IN /\ Len(matches') = Len(matches) + 1
       /\ matches'[Len(matches')].room = r
       /\ matches'[Len(matches')].results = results
       /\ matches'[Len(matches')].winner = A.username
       /\ ~matches'[Len(matches')].isDraw
       /\ users'[A.username].wins = users[A.username].wins + 1
       /\ users'[B.username].losses = users[B.username].losses + 1

\* C7: when a room is playing with exactly two players A and B and B leaves
\* or B's transport closes, a Match Record [{A, A's score}, {B, 0,
\* disconnected}] with winner A is logged, A's wins and B's losses each grow
\* by one.
C7_ForfeitOutcome ==
    [][\A r \in ActiveIds : \A i \in 1..2 :
          ForfeitCase(r, i) => ForfeitOutcome(r, i)]_vars

\* ---- C8
\* the next event is a findMatch from live connection s under name u
FindMatchFrom(s, u) ==
    /\ last'.ev = "findMatch"
    /\ last'.socket = s
    /\ last'.name = u

Expired(e) == e.waited > MATCHMAKING_TIMEOUT

\* C9: at a findMatch, every queue entry that has waited longer than the
\* timeout is gone from the queue afterwards, its live owner is sent
\* matchmakingTimeout, and a room formed by that findMatch has as its first
\* player an entry of the queue that had not expired.
C9_ExpiredNeverMatched ==
    [][last'.ev = "findMatch" =>
        /\ \A i \in DOMAIN matchmakingQueue :
              Expired(matchmakingQueue[i]) =>
                /\ \A j \in DOMAIN matchmakingQueue' : ~Expired(matchmakingQueue'[j])
                /\ sockets[matchmakingQueue[i].socketId] = "live" =>
                      \E k \in DOMAIN out' :
                          /\ out'[k].ev = "matchmakingTimeout"
                          /\ out'[k].to = {matchmakingQueue[i].socketId}
        /\ Len(rooms') > Len(rooms) =>
              \E i \in DOMAIN matchmakingQueue :
                  /\ ~Expired(matchmakingQueue[i])
                  /\ \A j \in 1..(i - 1) : Expired(matchmakingQueue[j])
                                           \/ sockets[matchmakingQueue[j].socketId] # "live"
                  /\ heap'[rooms'[Len(rooms')].players[1]].socketId
                        = matchmakingQueue[i].socketId
                  /\ heap'[rooms'[Len(rooms')].players[1]].username
                        = matchmakingQueue[i].username]_vars

\* a findMatch found an expired entry of a live connection and evicted it
C9_Evicted ==
    /\ last.ev = "findMatch"
    /\ \E k \in OutEvents("matchmakingTimeout") : sockets[CHOOSE s \in out[k].to : TRUE] = "live"
    /\ \A j \in DOMAIN matchmakingQueue : matchmakingQueue[j].waited = 0

\* ---- C10
\* (socket id, username) of a room's player records, in order
PlayerIds(hp, room) ==
    [i \in 1..Len(room.players) |->
        <<hp[room.players[i]].socketId, hp[room.players[i]].username>>]

\* the handler sent the one message `error` with text msg to connection s
\* alone, and changed nothing
RefusedWith(s, msg) ==
    /\ out' = <<[to |-> {s}, ev |-> "error", arg |-> msg]>>
    /\ UNCHANGED <<sockets, playerSockets, heap, activeRooms, rooms,
                   matchmakingQueue, joined, startTimeouts, cleanupTimeouts,
                   users, matches>>

\* C10: joinRoom(c, u) from connection s is refused with "Room not found"
\* when no active room has code c, with "Game already started" when the
\* room is not waiting, with "Room is full" when a waiting room has 2 or
\* more players; a refusal sends the error to s alone and changes nothing.
\* Otherwise (s, u) is appended to the room's players with score 0 and
\* playerJoined, carrying the new membership, goes to the whole room, s
\* included.
C10_JoinRoom ==
    [][\A s \in Sockets : \A c \in Codes : \A u \in Names :
        (last'.ev = "joinRoom" /\ last'.socket = s /\ last'.code = c /\ last'.name = u) =>
          LET r == activeRooms[c] IN
          IF r = NoRoom THEN RefusedWith(s, "Room not found")
          ELSE IF rooms[r].status # "waiting" THEN RefusedWith(s, "Game already started")
          ELSE IF Len(rooms[r].players) >= MAX_PLAYERS THEN RefusedWith(s, "Room is full")
          ELSE /\ activeRooms' = activeRooms
               /\ PlayerIds(heap', rooms'[r]) = Append(PlayerIds(heap, rooms[r]), <<s, u>>)
               /\ rooms'[r].status = "waiting"
               /\ rooms'[r].scores = MapSet(rooms[r].scores, u, 0)
               /\ \A q \in RoomIds \ {r} : PlayerIds(heap', rooms'[q]) = PlayerIds(heap, rooms[q])
               /\ playerSockets'[s] = rooms'[r].players[Len(rooms'[r].players)]
               /\ joined' = [joined EXCEPT ![s] = @ \cup {c}]
               /\ Len(out') = 1
               /\ out'[1].ev = "playerJoined"
               /\ out'[1].to = {t \in Sockets : sockets[t] = "live" /\ c \in joined'[t]}
               /\ s \in out'[1].to
               /\ out'[1].arg.players =
                     [i \in 1..Len(rooms'[r].players) |-> heap'[rooms'[r].players[i]].username]
               /\ out'[1].arg.playerCount = Len(rooms[r].players) + 1]_vars

\* a joinRoom for a full waiting room was refused
C10_RefusedFull ==
    /\ last.ev = "joinRoom"
    /\ out = <<[to |-> {last.socket}, ev |-> "error", arg |-> "Room is full"]>>
    /\ activeRooms[last.code] # NoRoom
    /\ rooms[activeRooms[last.code]].status = "waiting"
    /\ \E i \in 1..Len(rooms[activeRooms[last.code]].players) :
          heap[rooms[activeRooms[last.code]].players[i]].socketId # last.socket

\* ---- C11
\* C11: startGame(c) from connection s is refused with "Room not found" when
\* no active room has code c, with "Game already started" when the room is
\* not waiting, with "Need 2 players to start" when it has fewer than 2
\* players; a refusal sends the error to s alone, broadcasts no gameStarting
\* and changes nothing (phase, scores, start time and timers included).
\* Otherwise the room becomes playing, its start time is set, its players'
\* scores are 0, the start callback is pending and gameStarting is sent.
C11_StartGame ==
    [][\A s \in Sockets : \A c \in Codes :
        (last'.ev = "startGame" /\ last'.socket = s /\ last'.code = c) =>
          LET r == activeRooms[c] IN
          IF r = NoRoom THEN RefusedWith(s, "Room not found")
          ELSE IF rooms[r].status # "waiting" THEN RefusedWith(s, "Game already started")
          ELSE IF Len(rooms[r].players) < 2 THEN RefusedWith(s, "Need 2 players to start")
          ELSE /\ rooms'[r].status = "playing"
               /\ rooms'[r].gameStartTime # 0
               /\ \A i \in 1..Len(rooms[r].players) :
                     rooms'[r].scores[heap[rooms[r].players[i]].username] = 0
               /\ PlayerIds(heap', rooms'[r]) = PlayerIds(heap, rooms[r])
               /\ ~rooms'[r].timerInterval
               /\ startTimeouts' = startTimeouts \cup {r}
               /\ activeRooms' = activeRooms
               /\ Len(out') = 1
               /\ out'[1].ev = "gameStarting"
               /\ out'[1].to = {t \in Sockets : sockets[t] = "live" /\ c \in joined[t]}]_vars

\* a startGame for a waiting room with a single player was refused
C11_RefusedAlone ==
    /\ last.ev = "startGame"
    /\ out = <<[to |-> {last.socket}, ev |-> "error", arg |-> "Need 2 players to start"]>>
    /\ activeRooms[last.code] # NoRoom
    /\ rooms[activeRooms[last.code]].status = "waiting"
    /\ Len(rooms[activeRooms[last.code]].players) = 1
    /\ startTimeouts = {}

\* ---- C12
\* C12: whenever a room steps from waiting to playing it has exactly 2
\* players, and when the step is taken by rejoinRoom's ready handshake both
\* players' usernames are in readyPlayers.
C12_StartsAtCapacity ==
    [][\A r \in RoomIds :
          (rooms[r].status = "waiting" /\ rooms'[r].status = "playing") =>
             /\ Len(rooms'[r].players) = MAX_PLAYERS
             /\ last'.ev = "rejoinRoom" =>
                   \A i \in 1..Len(rooms'[r].players) :
                       heap'[rooms'[r].players[i]].username \in rooms'[r].readyPlayers]_vars

\* ---- C13
\* C13: a startGame moves its room from waiting to playing only when it comes
\* from the connection of the room's host.
C13_HostStarts ==
    [][\A c \in Codes :
          ( /\ last'.ev = "startGame"
            /\ last'.code = c
            /\ activeRooms[c] # NoRoom
            /\ rooms[activeRooms[c]].status = "waiting"
            /\ rooms'[activeRooms[c]].status = "playing" ) =>
              heap[rooms[activeRooms[c]].host].socketId = last'.socket]_vars

\* ---- C14
\* connection b is the current connection of a player of room r, and another
\* player of r is on a different connection
PlaysAgainst(r, b) ==
    /\ \E i \in 1..Len(rooms[r].players) : heap[rooms[r].players[i]].socketId = b
    /\ \E j \in 1..Len(rooms[r].players) : heap[rooms[r].players[j]].socketId # b

\* C14: when the transport of a connection that is the current connection
\* of a player of an active playing room closes, the room is finished once
\* the disconnect has been handled, and a player on another connection has
\* one more win.
C14_DisconnectForfeits ==
    [][\A r \in ActiveIds :
          ( /\ last'.ev = "disconnect"
            /\ rooms[r].status = "playing"
            /\ PlaysAgainst(r, last'.socket) ) =>
              /\ rooms'[r].status = "finished"
              /\ \E j \in 1..Len(rooms[r].players) :
                    /\ heap[rooms[r].players[j]].socketId # last'.socket
                    /\ users'[heap[rooms[r].players[j]].username].wins
                          = users[heap[rooms[r].players[j]].username].wins + 1]_vars

\* ---- C15
\* C15: the step that sets a room to finished appends exactly one Match
\* Record, for that room, updates the stats by that record's result rows
\* and broadcasts gameOver or opponentDisconnected.
C15_FinishedIsRecorded ==
    [][\A r \in RoomIds :
          (rooms[r].status # "finished" /\ rooms'[r].status = "finished") =>
             /\ Len(matches') = Len(matches) + 1
             /\ matches'[Len(matches')].room = r
             /\ \E u \in Names : users'[u].gamesPlayed > users[u].gamesPlayed
             /\ \E i \in DOMAIN out' : out'[i].ev \in {"gameOver", "opponentDisconnected"}]_vars

\* ---- C16
\* C16: a room whose game clock is running is registered in activeRooms and
\* is playing.
C16_ClockOnlyWhilePlaying ==
    \A r \in RoomIds :
        rooms[r].timerInterval => (r \in ActiveIds /\ rooms[r].status = "playing")

\* ---- C17
GameOvers == Cardinality({i \in DOMAIN out' : out'[i].ev = "gameOver"})

\* the clock of room r has just been run (once, or several times back to back)
ClockStep(r) ==
    LET c == rooms[r].roomCode
        left == rooms'[r].timeRemaining
    IN /\ rooms[r].timerInterval
       /\ rooms[r].timeRemaining > 0
       /\ left >= 0
       /\ left < rooms[r].timeRemaining
       /\ rooms[r].timeRemaining <= TickWindow => left = rooms[r].timeRemaining - 1
       /\ out'[1] = [to |-> {t \in Sockets : sockets[t] = "live" /\ c \in joined[t]},
                     ev |-> "timerUpdate", arg |-> left]
       /\ rooms'[r].timerInterval = (left > 0)
       /\ GameOvers <= 1
       /\ left > 0 => (GameOvers = 0 /\ matches' = matches)
       /\ ( /\ left = 0
            /\ activeRooms[c] # NoRoom
            /\ rooms[activeRooms[c]].status # "finished" ) =>
              /\ rooms'[activeRooms[c]].status = "finished"
              /\ GameOvers = 1
              /\ Len(matches') = Len(matches) + 1

\* C17: a clock is started only by the start callback, seeded at 60; it runs
\* only while started and above 0; each run decrements the counter by one
\* and broadcasts the remaining time to the room; the run that reaches 0
\* stops the clock and ends the game under the room's code once; a counter
\* changes in no other step.
C17_Countdown ==
    [][\A r \in RoomIds :
          /\ (~rooms[r].timerInterval /\ rooms'[r].timerInterval) =>
                /\ last'.ev = "startTimeout"
                /\ last'.room = r
                /\ rooms'[r].timeRemaining = GAME_DURATION
          /\ (last'.ev = "tick" /\ last'.room = r) => ClockStep(r)
          /\ ~(last'.ev = "tick" /\ last'.room = r) =>
                \/ rooms'[r].timeRemaining = rooms[r].timeRemaining
                \/ rooms'[r].status = "gone"]_vars

\* the clock of a room reached 0, stopped and ended the room's game
C17_Expired ==
    /\ last.ev = "tick"
    /\ rooms[last.room].timeRemaining = 0
    /\ ~rooms[last.room].timerInterval
    /\ rooms[last.room].status = "finished"
    /\ Len(out) = 2
    /\ out[1].ev = "timerUpdate"
    /\ out[1].arg = 0
    /\ out[2].ev = "gameOver"

\* ---- C18
\* every variable but rooms and the last handler's messages
OutsideRooms ==
    <<sockets, playerSockets, heap, activeRooms, matchmakingQueue, joined,
      startTimeouts, cleanupTimeouts, users, matches>>

\* C18: updateScore(c, v) from connection s takes effect only when an active
\* room has code c, s has a playerSockets entry and the room is playing: then
\* the score entry under the caller's registry username becomes v, nothing
\* else changes, and the whole score map is sent to the room. In every other
\* case nothing changes and nothing is sent.
C18_UpdateScore ==
    [][\A s \in Sockets : \A c \in Codes : \A v \in Scores :
        ( /\ last'.ev = "updateScore" /\ last'.socket = s
          /\ last'.code = c /\ last'.val = v ) =>
          LET r == activeRooms[c]
              p == playerSockets[s]
          IN IF r # NoRoom /\ p # NoRef /\ rooms[r].status = "playing"
             THEN /\ rooms' = [rooms EXCEPT ![r].scores = MapSet(@, heap[p].username, v)]
                  /\ UNCHANGED OutsideRooms
                  /\ out' = <<[to |-> {t \in Sockets : sockets[t] = "live" /\ c \in joined[t]},
                               ev |-> "scoresUpdate", arg |-> rooms'[r].scores]>>
             ELSE /\ rooms' = rooms
                  /\ UNCHANGED OutsideRooms
                  /\ out' = <<>>]_vars

\* a player of a playing room raised their score and the room was told
C18_Accepted ==
    /\ last.ev = "updateScore"
    /\ last.val > 0
    /\ Len(out) = 1
    /\ out[1].ev = "scoresUpdate"
    /\ rooms[activeRooms[last.code]].status = "playing"
    /\ rooms[activeRooms[last.code]].scores[heap[playerSockets[last.socket]].username] = last.val
    /\ \E i \in 1..Len(rooms[activeRooms[last.code]].players) :
          rooms[activeRooms[last.code]].players[i] = playerSockets[last.socket]

\* ---- C19
\* C19: gameFinished(c, v) from connection s, when an active room has code c
\* and s has a playerSockets entry, sets the score entry under the caller's
\* registry username to v whatever the room's status; it changes nothing
\* else (no status, no clock, no stats, no Match Record, written or new) and
\* sends nothing.
C19_GameFinished ==
    [][\A s \in Sockets : \A c \in Codes : \A v \in Scores :
        ( /\ last'.ev = "gameFinished" /\ last'.socket = s
          /\ last'.code = c /\ last'.val = v ) =>
          LET r == activeRooms[c]
              p == playerSockets[s]
          IN /\ rooms' = IF r # NoRoom /\ p # NoRef
                         THEN [rooms EXCEPT ![r].scores = MapSet(@, heap[p].username, v)]
                         ELSE rooms
             /\ UNCHANGED OutsideRooms
             /\ out' = <<>>]_vars

\* a final score arrived after the game had ended and was still recorded
C19_LateScore ==
    /\ last.ev = "gameFinished"
    /\ last.val > 0
    /\ activeRooms[last.code] # NoRoom
    /\ rooms[activeRooms[last.code]].status = "finished"
    /\ playerSockets[last.socket] # NoRef
    /\ rooms[activeRooms[last.code]].scores[heap[playerSockets[last.socket]].username] = last.val
    /\ matches # <<>>
    /\ \A i \in DOMAIN matches : \A j \in DOMAIN matches[i].results :
          matches[i].results[j].score = 0

\* ---- C20
\* C20: once a leaveRoom or a transport close of a connection has been
\* handled, the matchmaking queue holds no entry of that connection.
C20_QueuePurged ==
    last.ev \in {"leaveRoom", "disconnect"} =>
        \A i \in DOMAIN matchmakingQueue : matchmakingQueue[i].socketId # last.socket


\* ---- C21
\* the rows of a results list that name user u
RowsOf(results, u) == {j \in DOMAIN results : results[j].username = u}

Max(S) == CHOOSE x \in S : \A y \in S : x >= y

\* user u's stats after one update per row of record m that names u
Credited(st, m, u) ==
    LET rows == RowsOf(m.results, u) IN
    [gamesPlayed |-> st.gamesPlayed + Cardinality(rows),
     totalScore |-> st.totalScore
                    + SumSeq([j \in DOMAIN m.results |->
                                 IF j \in rows THEN m.results[j].score ELSE 0]),
     wins |-> st.wins + (IF ~m.isDraw /\ 1 \in rows THEN 1 ELSE 0),
     losses |-> st.losses + (IF m.isDraw THEN 0 ELSE Cardinality(rows \ {1})),
     draws |-> st.draws + (IF m.isDraw THEN Cardinality(rows) ELSE 0),
     highScore |-> Max({st.highScore} \cup {m.results[j].score : j \in rows})]

\* C21: the step that logs a Match Record updates, for every result row
\* whose username has a user record, that user's games played by 1, total
\* score by the row's score, one of wins/losses/draws by 1 (draws for every
\* row of a draw, otherwise wins for the first row and losses for the
\* others) and the high score to the maximum; rows naming no user record
\* change nothing; no other step changes the stats; and in every state
\* gamesPlayed = wins + losses + draws for every user.
C21_StatsAggregation ==
    /\ [](\A u \in DOMAIN users :
             users[u].gamesPlayed = users[u].wins + users[u].losses + users[u].draws)
    /\ [][ /\ DOMAIN users' = DOMAIN users
           /\ IF matches' # matches
              THEN /\ Len(matches') = Len(matches) + 1
                   /\ \A u \in DOMAIN users :
                         users'[u] = Credited(users[u], matches'[Len(matches')], u)
              ELSE users' = users ]_vars

\* a clock expiry ended a game of two different users in a tie: each has
\* one draw, no win and no loss
C21_TieCredited ==
    /\ last.ev = "tick"
    /\ matches # <<>>
    /\ LET m == matches[Len(matches)] IN
          /\ m.isDraw
          /\ Len(m.results) = 2
          /\ m.results[1].username # m.results[2].username
          /\ \A j \in 1..2 :
                /\ users[m.results[j].username].draws = 1
                /\ users[m.results[j].username].wins = 0
                /\ users[m.results[j].username].losses = 0
                /\ users[m.results[j].username].gamesPlayed = 1


\* ---- C22
\* C22: every connection with a playerSockets entry is live; in particular,
\* once the close of a connection's transport has been handled the registry
\* has no entry for it.
C22_RegistryOfLive ==
    /\ \A s \in Sockets : playerSockets[s] # NoRef => sockets[s] = "live"
    /\ last.ev = "disconnect" => playerSockets[last.socket] = NoRef

\* the transport of a player of a registered room closed: the room still
\* holds the player's record under the closed connection's id, the registry
\* holds no entry for it, and another connection keeps its entry
C22_EntryDropped ==
    /\ last.ev = "disconnect"
    /\ sockets[last.socket] = "closed"
    /\ playerSockets[last.socket] = NoRef
    /\ \E r \in ActiveIds : \E i \in 1..Len(rooms[r].players) :
          heap[rooms[r].players[i]].socketId = last.socket
    /\ \E t \in Sockets : playerSockets[t] # NoRef


\* ---- C23
\* C23: a match holds up to 3 players: a joinRoom for a waiting room with
\* fewer than 3 players adds the joiner (a host and 2 joiners before the
\* room is full), and a room formed by findMatch groups the requester with
\* 2 other players.
C23_ThreePlayers ==
    [][ /\ \A c \in Codes :
              ( /\ last'.ev = "joinRoom"
                /\ last'.code = c
                /\ activeRooms[c] # NoRoom
                /\ rooms[activeRooms[c]].status = "waiting"
                /\ Len(rooms[activeRooms[c]].players) < 3 ) =>
                  Len(rooms'[activeRooms[c]].players)
                      = Len(rooms[activeRooms[c]].players) + 1
        /\ (last'.ev = "findMatch" /\ Len(rooms') > Len(rooms)) =>
              Len(rooms'[Len(rooms')].players) = 3 ]_vars


\* ---- C24
\* C24: a room that is playing is never taken out of activeRooms: a code
\* stops naming its room only while the room is waiting or once it is
\* finished.
C24_PlayingNeverDeleted ==
    [][\A c \in Codes :
          (activeRooms[c] # NoRoom /\ activeRooms'[c] # activeRooms[c]) =>
              rooms[activeRooms[c]].status \in {"waiting", "finished"}]_vars


\* ---- C25
\* the next event is connection s leaving room r by leaveRoom, or the close
\* of s's transport
Leaves(r, s) ==
    /\ last'.socket = s
    /\ \/ last'.ev = "leaveRoom" /\ last'.code = rooms[r].roomCode
       \/ last'.ev = "disconnect"

\* the positions of room r's players whose current connection is s
SeatsOf(r, s) == {i \in 1..Len(rooms[r].players) : heap[rooms[r].players[i]].socketId = s}

\* C25: when the only player of a registered waiting room leaves it or its
\* transport closes, the room is deleted from activeRooms in that step, no
\* Match Record is appended and no stats change; when a player of a
\* registered waiting room with other players leaves or closes, the room
\* stays registered and waiting, without that player's record, and
\* playerLeft is sent to the room.
C25_WaitingLeave ==
    [][\A r \in ActiveIds : \A s \in Sockets :
          (rooms[r].status = "waiting" /\ SeatsOf(r, s) # {} /\ Leaves(r, s)) =>
             /\ matches' = matches
             /\ users' = users
             /\ IF Len(rooms[r].players) = 1
                THEN activeRooms'[rooms[r].roomCode] = NoRoom
                ELSE SeatsOf(r, s) # 1..Len(rooms[r].players) =>
                       /\ activeRooms'[rooms[r].roomCode] = r
                       /\ rooms'[r].status = "waiting"
                       /\ PlayerIds(heap', rooms'[r])
                             = Filter(PlayerIds(heap, rooms[r]), SeatsOf(r, s))
                       /\ \E i \in DOMAIN out' : out'[i].ev = "playerLeft"]_vars


\* ---- C26
\* C26: with every pending timer eventually firing, and whatever the clients
\* do or do not send, every room that is playing is eventually finished and
\* every registered finished room is eventually out of activeRooms.
C26_EndsAndIsCleaned ==
    \A r \in 1..MaxRooms :
        /\ (r \in RoomIds /\ rooms[r].status = "playing")
              ~> (r \in RoomIds /\ rooms[r].status = "finished")
        /\ (r \in ActiveIds /\ rooms[r].status = "finished")
              ~> (r \notin ActiveIds)


\* ---- C27
\* C27: in every registered room the usernames of the player records are
\* pairwise distinct.
C27_NamesDistinct ==
    \A r \in ActiveIds : \A i, j \in 1..Len(rooms[r].players) :
        heap[rooms[r].players[i]].username = heap[rooms[r].players[j]].username => i = j


\* ---- C28
\* C28: a leaveRoom or a transport close ends a playing room only when it
\* comes from the current connection of one of that room's players.
C28_ForfeitByMember ==
    [][\A r \in ActiveIds :
          ( /\ last'.ev \in {"leaveRoom", "disconnect"}
            /\ rooms[r].status = "playing"
            /\ rooms'[r].status = "finished" ) =>
              SeatsOf(r, last'.socket) # {}]_vars


\* ---- C29
\* how many entries of the sequence of names are u
CountOf(names, u) == Cardinality({i \in DOMAIN names : names[i] = u})

\* C29: in every Match Record the results name each of the room's players
\* exactly once and nobody else, and no username appears twice.
C29_ResultsArePlayers ==
    \A i \in DOMAIN matches :
        LET m == matches[i]
            named == [j \in DOMAIN m.results |-> m.results[j].username]
        IN /\ \A j \in DOMAIN named :
                 /\ CountOf(named, named[j]) = 1
                 /\ CountOf(m.players, named[j]) = 1
           /\ \A k \in DOMAIN m.players : CountOf(named, m.players[k]) = 1


\* ---- C30
\* both original connections have closed and both reloaded pages have rejoined
HandshakeDone ==
    /\ \A s \in Originals : sockets[s] = "closed"
    /\ \A s \in Returning : playerSockets[s] # NoRef

\* C30: after matchFound for x and y, with each original connection closing
\* and each player sending rejoinRoom from a new connection in any order,
\* every rejoinRoom finds the room registered and is answered rejoinedRoom,
\* never an error, and once the four events have happened the room is
\* registered and playing with exactly two players, x and y, on the new
\* connections.
C30_HandshakeCompletes ==
    /\ [][last'.ev = "rejoinRoom" =>
             /\ activeRooms[HandshakeCode] # NoRoom
             /\ \E i \in DOMAIN out' : out'[i].ev = "rejoinedRoom"
             /\ \A i \in DOMAIN out' : out'[i].ev # "error"]_vars
    /\ [](HandshakeDone =>
             /\ activeRooms[HandshakeCode] # NoRoom
             /\ rooms[activeRooms[HandshakeCode]].status = "playing"
             /\ Len(rooms[activeRooms[HandshakeCode]].players) = 2
             /\ {PlayerIds(heap, rooms[activeRooms[HandshakeCode]])[i] : i \in 1..2}
                   = {<<s, heap[playerSockets[s]].username>> : s \in Returning})


\* ---- C31
\* C31: a room formed by findMatch has two players with different
\* connection ids.
C31_NoSelfPairing ==
    [][(last'.ev = "findMatch" /\ Len(rooms') > Len(rooms)) =>
          /\ Len(rooms'[Len(rooms')].players) = 2
          /\ heap'[rooms'[Len(rooms')].players[1]].socketId
                # heap'[rooms'[Len(rooms')].players[2]].socketId]_vars


\* ---- C32
\* C32: a delayed cleanup takes out of activeRooms only a room that has
\* finished: it never deletes a room registered under the same code since.
C32_CleanupOnlyFinished ==
    [][\A c \in Codes :
          ( /\ last'.ev = "cleanupTimeout"
            /\ last'.code = c
            /\ activeRooms[c] # NoRoom ) =>
              rooms[activeRooms[c]].status = "finished"]_vars


\* ---- C33
\* C33: every registered room that is waiting has at least one player whose
\* connection is live.
C33_NoOrphanWaiting ==
    \A r \in ActiveIds :
        rooms[r].status = "waiting" =>
            \E i \in 1..Len(rooms[r].players) :
                sockets[heap[rooms[r].players[i]].socketId] = "live"


====
